---------------------------- MODULE Spec2Model ----------------------------
(***************************************************************************)
(* zjstatus-hints: the ANSI-aware measurement and truncation of the        *)
(* status-line message (src/src/main.rs, State::calculate_visible_length   *)
(* and State::truncate_ansi_string).                                       *)
(*                                                                         *)
(* A text is a sequence of Unicode scalar values (what str::chars()        *)
(* yields), each an integer code point.  String::len() is the UTF-8 byte   *)
(* length, so it is computed from the code points, not from Len.           *)
(***************************************************************************)
EXTENDS Integers, Sequences, FiniteSets, TLC

VARIABLES
    overflow_str,   \* State.overflow_str, the marker
    text,           \* argument text of truncate_ansi_string
    max_len,        \* argument max_len of truncate_ansi_string
    pc,             \* position in the call: "call", "check", "scan", "done"
    visible_len,    \* local visible_len (main.rs:118)
    idx,            \* number of characters the for loop has taken from chars
    in_escape,      \* local in_escape of the truncation loop
    current_len,    \* local current_len
    result,         \* local result, returned when pc = "done"
    other,          \* a second text, measured next to text (restyled variant)
    other_len,      \* calculate_visible_length(other)
    pipe_name,      \* State.pipe_name
    mode_info,      \* State.mode_info
    base_mode_is_locked,    \* State.base_mode_is_locked
    max_length,     \* State.max_length
    configuration,  \* argument of load
    subscribed,     \* the event types load subscribed to
    event,          \* argument of the latest update
    should_render,  \* what the latest update returned
    message,        \* argument of the latest display
    printed,        \* what the latest handler call printed
    piped,          \* payload the latest handler call piped to zjstatus
    last_call,      \* arguments and result of the previous truncate call
    last_cols,      \* argument cols of the latest render
    tab_info,       \* argument tab_info of one_line_ui
    text_copied_to_clipboard_destination,   \* argument of one_line_ui
    clipboard_failure,      \* argument clipboard_failure of one_line_ui
    line_part,      \* what one_line_ui returned
    keyvec,         \* argument keyvec of get_common_modifiers
    taken,          \* number of keys get_common_modifiers has taken from keyvec
    common_modifiers,       \* local common_modifiers
    modifiers       \* what get_common_modifiers returned

\* the fields of State next to overflow_str, and the plugin's surroundings
plugin == << pipe_name, mode_info, base_mode_is_locked, max_length,
             configuration, subscribed, event, should_render, message,
             printed, piped, last_call, last_cols >>

\* the arguments, locals and results of the free functions
helpers == << tab_info, text_copied_to_clipboard_destination,
              clipboard_failure, line_part, keyvec, taken, common_modifiers,
              modifiers >>

vars == << overflow_str, text, max_len, pc, visible_len, idx, in_escape,
           current_len, result, other, other_len, plugin,
                    helpers >>

-----------------------------------------------------------------------------
(* Bounds of the model *)

MaxLen == 5
MaxBudget == 5
MaxPairLen == 3

(* Characters the code tests for *)

ESC == 27
LowerM == 109

-----------------------------------------------------------------------------
(* Inputs *)

BoundedSeq(S, n) == UNION { [1..k -> S] : k \in 0..n }

\* ESC, 'm' (visible outside an escape, terminator inside), 'a'
Alphabet == {ESC, LowerM, 97}

\* "..."
Dots == << 46, 46, 46 >>

\* "", ".", "...", the one-character ellipsis U+2026 (3 bytes), a bare ESC,
\* and a complete escape sequence ESC m
Markers == { << >>, << 46 >>, Dots, << 8230 >>, << ESC >>, << ESC, LowerM >> }

\* "Hello", "Hello World"
Hello == << 72, 101, 108, 108, 111 >>
HelloWorld == Hello \o << 32, 87, 111, 114, 108, 100 >>
\* ESC[1m and ESC[0m
Bold == << ESC, 91, 49, LowerM >>
Reset == << ESC, 91, 48, LowerM >>
StyledHello == Bold \o Hello \o Reset
StyledHelloWorld == Bold \o HelloWorld \o Reset
\* "plain text, no escapes"
PlainText == << 112, 108, 97, 105, 110, 32, 116, 101, 120, 116, 44, 32,
                110, 111, 32, 101, 115, 99, 97, 112, 101, 115 >>

Scenarios ==
    { [text |-> StyledHelloWorld, marker |-> Dots, max |-> 5],
      [text |-> Hello,            marker |-> Dots, max |-> 10],
      [text |-> HelloWorld,       marker |-> Dots, max |-> 2],
      [text |-> StyledHello,      marker |-> Dots, max |-> 10],
      [text |-> PlainText,        marker |-> Dots, max |-> 10] }

Inputs ==
    { [text |-> t, marker |-> m, max |-> n] :
        t \in BoundedSeq(Alphabet, MaxLen), m \in Markers, n \in 0..MaxBudget }
    \cup Scenarios

-----------------------------------------------------------------------------
(* String::len(): the UTF-8 byte length *)

Utf8Len(ch) ==
    IF ch < 128 THEN 1 ELSE IF ch < 2048 THEN 2 ELSE IF ch < 65536 THEN 3 ELSE 4

RECURSIVE StrLen(_)
StrLen(s) == IF s = << >> THEN 0 ELSE Utf8Len(Head(s)) + StrLen(Tail(s))

-----------------------------------------------------------------------------
(* The plugin's data: configuration, ModeInfo, events *)

MaxCols == 13

\* Option<String>: what BTreeMap::get finds under a key
None == [some |-> FALSE]
Some(v) == [some |-> TRUE, value |-> v]

\* "0", "3", "05", "+4", "-1", "4x", ""
MaxLengthValues ==
    { None, Some(<< 48 >>), Some(<< 51 >>), Some(<< 48, 53 >>),
      Some(<< 43, 52 >>), Some(<< 45, 49 >>), Some(<< 52, 120 >>),
      Some(<< >>) }

\* "…" (one character, three bytes)
OverflowValues == { None, Some(<< 8230 >>) }

\* "p"
PipeNameValues == { None, Some(<< 112 >>) }

Configurations ==
    [ max_length : MaxLengthValues, overflow_str : OverflowValues,
      pipe_name : PipeNameValues ]

\* "zjstatus_hints" (main.rs:52)
DefaultPipeName ==
    << 122, 106, 115, 116, 97, 116, 117, 115, 95, 104, 105, 110, 116, 115 >>

\* "zjstatus::pipe::pipe_" and "::" (main.rs:110)
PipePrefix ==
    << 122, 106, 115, 116, 97, 116, 117, 115, 58, 58, 112, 105, 112, 101,
       58, 58, 112, 105, 112, 101, 95 >>
PipeSeparator == << 58, 58 >>

\* ModeInfo, as far as the plugin reads it: the mode, the base mode, whether
\* the mode's keymap binds the hinted actions, and
\* style.colors.text_unselected.background.  The host's ModeUpdate carries a
\* keymap with bindings; only ModeInfo::default() has none.
ModeInfos ==
    [ mode : {"Normal", "Locked", "Pane"},
      base_mode : {"None", "Locked"},
      keys : {"bound"},
      background : { [kind |-> "EightBit", rgb |-> << 0 >>],
                     [kind |-> "Rgb", rgb |-> << 1, 20, 255 >>] } ]

\* ModeInfo::default()
DefaultModeInfo ==
    [ mode |-> "Normal", base_mode |-> "None", keys |-> "unbound",
      background |-> [kind |-> "EightBit", rgb |-> << 0 >>] ]

\* main.rs:61-67
SubscribedEvents ==
    { "ModeUpdate", "TabUpdate", "CopyToClipboard", "InputReceived",
      "SystemClipboardFailure" }

NoEvent == [kind |-> "None"]

\* the events the host delivers; a TabUpdate carries the active tab's flags
Events ==
    { [kind |-> "ModeUpdate", mode_info |-> mi] : mi \in ModeInfos }
    \cup { [kind |-> "TabUpdate", is_fullscreen_active |-> TRUE,
            are_floating_panes_visible |-> FALSE],
           [kind |-> "TabUpdate", is_fullscreen_active |-> FALSE,
            are_floating_panes_visible |-> TRUE],
           [kind |-> "CopyToClipboard"], [kind |-> "InputReceived"],
           [kind |-> "SystemClipboardFailure"] }

\* an empty BTreeMap
EmptyConfiguration ==
    [ max_length |-> None, overflow_str |-> None, pipe_name |-> None ]

\* the widths render is called with
Cols == {11, MaxCols}

NoCall == [made |-> FALSE]

\* no free function called
NoHelperCall ==
    /\ tab_info = None
    /\ text_copied_to_clipboard_destination = None
    /\ clipboard_failure = FALSE
    /\ line_part = None
    /\ keyvec = << >>
    /\ taken = 0
    /\ common_modifiers = {}
    /\ modifiers = << >>

\* State::default(), no handler called yet
StateDefault ==
    /\ pipe_name = << >>
    /\ mode_info = DefaultModeInfo
    /\ base_mode_is_locked = FALSE
    /\ max_length = 0
    /\ subscribed = {}
    /\ event = NoEvent
    /\ should_render = FALSE
    /\ message = << >>
    /\ printed = << >>
    /\ piped = << >>
    /\ last_call = NoCall
    /\ last_cols = 0
    /\ NoHelperCall

-----------------------------------------------------------------------------
(* calculate_visible_length (main.rs:157-175) *)

\* a plausible slip: the escape ends at the first letter, as a CSI parser would
MeasureStepAnyLetterEnds(st, ch) ==
    IF ch = ESC THEN [len |-> st.len, in_escape |-> TRUE]
    ELSE IF st.in_escape
         THEN [len |-> st.len, in_escape |-> ~(ch >= 97 /\ ch <= 122)]
         ELSE [len |-> st.len + 1, in_escape |-> FALSE]

\* a plausible slip: the terminating 'm' is counted as visible
MeasureStepCountsTerminator(st, ch) ==
    IF ch = ESC THEN [len |-> st.len, in_escape |-> TRUE]
    ELSE IF st.in_escape
         THEN IF ch = LowerM THEN [len |-> st.len + 1, in_escape |-> FALSE]
                             ELSE st
         ELSE [len |-> st.len + 1, in_escape |-> FALSE]

\* a plausible slip: only ESC and the terminating 'm' are skipped, the payload
\* is counted
MeasureStepCountsPayload(st, ch) ==
    IF ch = ESC THEN [len |-> st.len, in_escape |-> TRUE]
    ELSE IF st.in_escape
         THEN IF ch = LowerM THEN [len |-> st.len, in_escape |-> FALSE]
                             ELSE [len |-> st.len + 1, in_escape |-> TRUE]
         ELSE [len |-> st.len + 1, in_escape |-> FALSE]

\* one iteration of the for loop (main.rs:162-172)
MeasureStep(st, ch) ==
    IF ch = ESC THEN [len |-> st.len, in_escape |-> TRUE]
    ELSE IF st.in_escape
         THEN IF ch = LowerM THEN [len |-> st.len, in_escape |-> FALSE]
                             ELSE st
         ELSE [len |-> st.len + 1, in_escape |-> FALSE]

\* the for loop over the characters lo..hi of s, in order.  The range is
\* scanned by halves; left is the state after the left half, bound before the
\* right half is scanned from it.
RECURSIVE MeasureRange(_, _, _, _)
MeasureRange(st, s, lo, hi) ==
    IF lo > hi THEN st
    ELSE IF lo = hi THEN MeasureStep(st, s[lo])
    ELSE LET mid == (lo + hi) \div 2
         IN  CHOOSE after \in
                 { MeasureRange(left, s, mid + 1, hi) :
                     left \in { MeasureRange(st, s, lo, mid) } } : TRUE

\* the for loop (main.rs:162-172) from state st over the text s
MeasureFrom(st, s) == MeasureRange(st, s, 1, Len(s))

calculate_visible_length(s) ==
    MeasureFrom([len |-> 0, in_escape |-> FALSE], s).len

-----------------------------------------------------------------------------
(* truncate_ansi_string (main.rs:117-155) *)

\* main.rs:119
overflow_len == StrLen(overflow_str)

\* a plausible slip: <= written as <
FitsBudgetStrict == visible_len < max_len

\* main.rs:121
FitsBudget == visible_len <= max_len

\* a plausible slip: <= written as <
MarkerAloneStrict == max_len < overflow_len

\* a plausible slip: the test counts the marker's characters while the
\* subtraction of main.rs:129 still uses its bytes
MarkerAloneByChars == max_len <= Len(overflow_str)

\* main.rs:125
MarkerAlone == max_len <= overflow_len

\* a plausible slip: the marker is not reserved in the budget
target_len_whole_budget == max_len

\* a plausible slip: off by one
target_len_plus_one == max_len - overflow_len + 1

\* main.rs:129 (usize: evaluated only when max_len > overflow_len)
target_len == max_len - overflow_len

\* the character the iterator yields next
ch == text[idx + 1]

\* a plausible slip: the budget is tested before the escape state
BreaksAnywhere == idx < Len(text) /\ current_len >= target_len

\* a plausible slip: > written for >=
BreaksLate ==
    idx < Len(text) /\ ch # ESC /\ ~in_escape /\ current_len > target_len

\* main.rs:135-147: the loop has a next character and reaches the break,
\* which sits in the else branch only
Breaks ==
    idx < Len(text) /\ ch # ESC /\ ~in_escape /\ current_len >= target_len

\* main.rs:118
Measure ==
    /\ pc = "call"
    /\ visible_len' = calculate_visible_length(text)
    /\ pc' = "check"
    /\ UNCHANGED << overflow_str, text, max_len, idx, in_escape, current_len,
                    result, other, other_len, plugin,
                    helpers >>

\* main.rs:121-123
ReturnText ==
    /\ pc = "check"
    /\ FitsBudget
    /\ result' = text
    /\ pc' = "done"
    /\ UNCHANGED << overflow_str, text, max_len, visible_len, idx, in_escape,
                    current_len, other, other_len, plugin,
                    helpers >>

\* main.rs:125-127
ReturnOverflow ==
    /\ pc = "check"
    /\ ~FitsBudget
    /\ MarkerAlone
    /\ result' = overflow_str
    /\ pc' = "done"
    /\ UNCHANGED << overflow_str, text, max_len, visible_len, idx, in_escape,
                    current_len, other, other_len, plugin,
                    helpers >>

\* main.rs:129-133
BeginScan ==
    /\ pc = "check"
    /\ ~FitsBudget
    /\ ~MarkerAlone
    /\ result' = << >>
    /\ current_len' = 0
    /\ idx' = 0
    /\ in_escape' = FALSE
    /\ pc' = "scan"
    /\ UNCHANGED << overflow_str, text, max_len, visible_len, other, other_len,
                    plugin,
                    helpers >>

\* main.rs:136-138
PushEscapeStart ==
    /\ pc = "scan"
    /\ idx < Len(text)
    /\ ch = ESC
    /\ in_escape' = TRUE
    /\ result' = Append(result, ch)
    /\ idx' = idx + 1
    /\ UNCHANGED << overflow_str, text, max_len, pc, visible_len, current_len,
                    other, other_len, plugin,
                    helpers >>

\* a plausible slip: a hand-indexed loop that does not advance inside an escape
PushEscapeBodyStalls ==
    /\ pc = "scan"
    /\ idx < Len(text)
    /\ ch # ESC
    /\ in_escape
    /\ UNCHANGED vars

\* main.rs:139-143
PushEscapeBody ==
    /\ pc = "scan"
    /\ idx < Len(text)
    /\ ch # ESC
    /\ in_escape
    /\ result' = Append(result, ch)
    /\ in_escape' = (ch # LowerM)
    /\ idx' = idx + 1
    /\ UNCHANGED << overflow_str, text, max_len, pc, visible_len, current_len,
                    other, other_len, plugin,
                    helpers >>

\* main.rs:144-150, the budget not yet reached
PushVisible ==
    /\ pc = "scan"
    /\ idx < Len(text)
    /\ ch # ESC
    /\ ~in_escape
    /\ ~Breaks
    /\ result' = Append(result, ch)
    /\ current_len' = current_len + 1
    /\ idx' = idx + 1
    /\ UNCHANGED << overflow_str, text, max_len, pc, visible_len, in_escape,
                    other, other_len, plugin,
                    helpers >>

\* a plausible slip: the marker is not appended
FinishScanNoMarker ==
    /\ pc = "scan"
    /\ (idx = Len(text) \/ Breaks)
    /\ pc' = "done"
    /\ UNCHANGED << overflow_str, text, max_len, visible_len, idx, in_escape,
                    current_len, result, other, other_len, plugin,
                    helpers >>

\* a plausible slip: the marker and the result are joined in the State field
FinishScanIntoField ==
    /\ pc = "scan"
    /\ (idx = Len(text) \/ Breaks)
    /\ result' = result \o overflow_str
    /\ overflow_str' = result \o overflow_str
    /\ pc' = "done"
    /\ UNCHANGED << text, max_len, visible_len, idx, in_escape, current_len,
                    other, other_len, plugin,
                    helpers >>

\* the loop ends (break at main.rs:145-147, or chars exhausted), then
\* main.rs:153-154
FinishScan ==
    /\ pc = "scan"
    /\ (idx = Len(text) \/ Breaks)
    /\ result' = result \o overflow_str
    /\ pc' = "done"
    /\ UNCHANGED << overflow_str, text, max_len, visible_len, idx, in_escape,
                    current_len, other, other_len, plugin,
                    helpers >>

Init ==
    /\ \E in \in Inputs :
          /\ text = in.text
          /\ overflow_str = in.marker
          /\ max_len = in.max
    /\ pc = "call"
    /\ visible_len = 0
    /\ idx = 0
    /\ in_escape = FALSE
    /\ current_len = 0
    /\ result = << >>
    /\ other = << >>
    /\ other_len = 0
    /\ StateDefault
    /\ configuration = EmptyConfiguration

Next ==
    \/ Measure
    \/ ReturnText
    \/ ReturnOverflow
    \/ BeginScan
    \/ PushEscapeStart
    \/ PushEscapeBody
    \/ PushVisible
    \/ FinishScan

Spec == Init /\ [][Next]_vars

\* the call runs to completion: nothing suspends or preempts it
SpecFair == Spec /\ WF_vars(Next)

-----------------------------------------------------------------------------
(* The plugin: load, update, render and display (main.rs:39-115) *)

IsDigit(c) == c >= 48 /\ c <= 57

RECURSIVE DigitsValue(_, _)
DigitsValue(s, acc) ==
    IF s = << >> THEN Some(acc)
    ELSE IF IsDigit(Head(s)) THEN DigitsValue(Tail(s), acc * 10 + Head(s) - 48)
         ELSE None

RECURSIVE DigitPrefixValue(_, _)
DigitPrefixValue(s, acc) ==
    IF s # << >> /\ IsDigit(Head(s))
    THEN DigitPrefixValue(Tail(s), acc * 10 + Head(s) - 48)
    ELSE Some(acc)

\* a plausible slip: the leading digits are taken and the rest ignored, as
\* atoi does
ParseUsizeLenient(s) ==
    IF s = << >> THEN None
    ELSE LET digits == IF Head(s) = 43 THEN Tail(s) ELSE s
         IN  IF digits = << >> \/ ~IsDigit(Head(digits)) THEN None
             ELSE DigitPrefixValue(digits, 0)

\* str::parse::<usize>() (main.rs:43): an optional '+', then digits only
ParseUsize(s) ==
    IF s = << >> THEN None
    ELSE LET digits == IF Head(s) = 43 THEN Tail(s) ELSE s
         IN  IF digits = << >> THEN None ELSE DigitsValue(digits, 0)

\* Option::unwrap_or
UnwrapOr(o, default) == IF o.some THEN o.value ELSE default

\* main.rs:45-48
LoadedOverflow == UnwrapOr(configuration.overflow_str, Dots)

\* main.rs:41-44
LoadedMaxLength ==
    IF configuration.max_length.some
    THEN UnwrapOr(ParseUsize(configuration.max_length.value), 0)
    ELSE 0

\* main.rs:49-52
LoadedPipeName == UnwrapOr(configuration.pipe_name, DefaultPipeName)

\* load (main.rs:40-68)
Load ==
    /\ pc = "new"
    /\ max_length' = LoadedMaxLength
    /\ overflow_str' = LoadedOverflow
    /\ pipe_name' = LoadedPipeName
    /\ subscribed' = SubscribedEvents
    /\ pc' = "idle"
    /\ UNCHANGED << text, max_len, visible_len, idx, in_escape, current_len,
                    result, other, other_len, mode_info, base_mode_is_locked,
                    configuration, event, should_render, message, printed,
                    piped, last_call, last_cols, helpers >>

\* a plausible slip: every ModeUpdate asks for a redraw
UpdateAlwaysRedraws(e) ==
    /\ pc = "idle"
    /\ e.kind \in subscribed
    /\ event' = e
    /\ IF e.kind = "ModeUpdate"
       THEN /\ should_render' = TRUE
            /\ mode_info' = e.mode_info
            /\ base_mode_is_locked' = (e.mode_info.base_mode = "Locked")
       ELSE /\ should_render' = FALSE
            /\ UNCHANGED << mode_info, base_mode_is_locked >>
    /\ message' = << >>
    /\ printed' = << >>
    /\ piped' = << >>
    /\ UNCHANGED << overflow_str, text, max_len, pc, visible_len, idx,
                    in_escape, current_len, result, other, other_len,
                    pipe_name, max_length, configuration, subscribed,
                    last_call, last_cols, helpers >>

\* a plausible slip: base_mode_is_locked is computed before mode_info is stored
UpdateStaleBaseMode(e) ==
    /\ pc = "idle"
    /\ e.kind \in subscribed
    /\ event' = e
    /\ IF e.kind = "ModeUpdate"
       THEN /\ should_render' = (mode_info # e.mode_info)
            /\ mode_info' = e.mode_info
            /\ base_mode_is_locked' = (mode_info.base_mode = "Locked")
       ELSE /\ should_render' = FALSE
            /\ UNCHANGED << mode_info, base_mode_is_locked >>
    /\ message' = << >>
    /\ printed' = << >>
    /\ piped' = << >>
    /\ UNCHANGED << overflow_str, text, max_len, pc, visible_len, idx,
                    in_escape, current_len, result, other, other_len,
                    pipe_name, max_length, configuration, subscribed,
                    last_call, last_cols, helpers >>

\* update (main.rs:70-80)
Update(e) ==
    /\ pc = "idle"
    /\ e.kind \in subscribed
    /\ event' = e
    /\ IF e.kind = "ModeUpdate"
       THEN /\ should_render' = (mode_info # e.mode_info)
            /\ mode_info' = e.mode_info
            /\ base_mode_is_locked' = (e.mode_info.base_mode = "Locked")
       ELSE /\ should_render' = FALSE
            /\ UNCHANGED << mode_info, base_mode_is_locked >>
    /\ message' = << >>
    /\ printed' = << >>
    /\ piped' = << >>
    /\ UNCHANGED << overflow_str, text, max_len, pc, visible_len, idx,
                    in_escape, current_len, result, other, other_len,
                    pipe_name, max_length, configuration, subscribed,
                    last_call, last_cols, helpers >>

\* format!("{}", n) of a number
RECURSIVE Decimal(_)
Decimal(n) ==
    IF n < 10 THEN << 48 + n >> ELSE Decimal(n \div 10) \o << 48 + (n % 10) >>

\* ESC[0K
EraseLine == << ESC, 91, 48, 75 >>

\* fill_bg (main.rs:83-87)
FillBg(background) ==
    IF background.kind = "Rgb"
    THEN << ESC, 91, 52, 56, 59, 50, 59 >> \o Decimal(background.rgb[1])
         \o << 59 >> \o Decimal(background.rgb[2])
         \o << 59 >> \o Decimal(background.rgb[3]) \o << LowerM >> \o EraseLine
    ELSE << ESC, 91, 52, 56, 59, 53, 59 >> \o Decimal(background.rgb[1])
         \o << LowerM >> \o EraseLine

\* one ANSIString: a styled one is written between its SGR prefix and the reset
Paint(part) ==
    IF part.styled THEN Bold \o part.text \o Reset ELSE part.text

RECURSIVE ANSIStrings(_)
ANSIStrings(parts) ==
    IF parts = << >> THEN << >>
    ELSE Paint(Head(parts)) \o ANSIStrings(Tail(parts))

RECURSIVE unstyled_len(_)
unstyled_len(parts) ==
    IF parts = << >> THEN 0
    ELSE Len(Head(parts).text) + unstyled_len(Tail(parts))

\* " ", the styled key " k ", and the description " label "
KeyAndLabel(key, label, label_styled) ==
    << [styled |-> FALSE, text |-> << 32 >>],
       [styled |-> TRUE, text |-> << 32, key, 32 >>],
       [styled |-> label_styled, text |-> << 32 >> \o label \o << 32 >>] >>

\* the parts render_hints collects (main.rs:393-880), for one keymap per mode:
\* Normal binds "p" to pane, Pane binds "n" to new, any other mode binds "g"
\* to normal
HintParts(help) ==
    IF help.keys = "unbound" THEN << >>
    ELSE IF help.mode = "Normal"
         THEN KeyAndLabel(112, << 112, 97, 110, 101 >>, FALSE)
    ELSE IF help.mode = "Pane"
         THEN KeyAndLabel(110, << 110, 101, 119 >>, FALSE)
    ELSE KeyAndLabel(103, << 110, 111, 114, 109, 97, 108 >>, TRUE)

\* a plausible slip: hints that do not fit are cut to the width
render_hints_clipped(help, cols) ==
    LET parts == HintParts(help)
    IN  IF parts = << >> THEN << >>
        ELSE IF 1 + unstyled_len(parts) <= cols
             THEN << 32 >> \o ANSIStrings(parts)
             ELSE SubSeq(<< 32 >> \o ANSIStrings(parts), 1, cols)

\* render_hints (main.rs:393-896)
render_hints(help, cols) ==
    LET parts == HintParts(help)
    IN  IF parts = << >> THEN << >>
        ELSE IF 1 + unstyled_len(parts) <= cols
             THEN << 32 >> \o ANSIStrings(parts)
             ELSE << >>

\* a plausible slip: the fill is written before the hints
RenderedMessageFillFirst(cols) ==
    IF mode_info.mode = "Locked" /\ base_mode_is_locked
    THEN FillBg(mode_info.background)
    ELSE FillBg(mode_info.background) \o render_hints(mode_info, cols)

\* the message render hands to display (main.rs:83-96)
RenderedMessage(cols) ==
    IF mode_info.mode = "Locked" /\ base_mode_is_locked
    THEN FillBg(mode_info.background)
    ELSE render_hints(mode_info, cols) \o FillBg(mode_info.background)

\* a plausible slip: the gate on max_length > 0 is left out
ShouldTruncateUngated(vl) == vl > max_length

\* main.rs:104
ShouldTruncate(vl) == max_length > 0 /\ vl > max_length

\* main.rs:109-112
PipePayload(output) == PipePrefix \o pipe_name \o PipeSeparator \o output

\* render, and display up to its call of truncate_ansi_string or, without
\* one, to its end (main.rs:82-97, 101-115)
Render(cols) ==
    /\ pc = "idle"
    /\ LET msg == RenderedMessage(cols)
           vl == calculate_visible_length(msg)
       IN  /\ message' = msg
           /\ last_cols' = cols
           /\ IF msg = << >>
              THEN /\ printed' = << >>
                   /\ piped' = << >>
                   /\ UNCHANGED << text, max_len, pc, visible_len >>
              ELSE IF ShouldTruncate(vl)
              THEN /\ text' = msg
                   /\ max_len' = max_length
                   /\ visible_len' = vl
                   /\ pc' = "call"
                   /\ printed' = << >>
                   /\ piped' = << >>
              ELSE /\ printed' = msg
                   /\ piped' = PipePayload(msg)
                   /\ visible_len' = vl
                   /\ UNCHANGED << text, max_len, pc >>
    /\ UNCHANGED << overflow_str, idx, in_escape, current_len, result, other,
                    other_len, pipe_name, mode_info, base_mode_is_locked,
                    max_length, configuration, subscribed, event,
                    should_render, last_call, helpers >>

\* display after truncate_ansi_string returned (main.rs:105, 109-113); the
\* locals of the call are gone
DisplayEmit ==
    /\ pc = "done"
    /\ printed' = result
    /\ piped' = PipePayload(result)
    /\ last_call' = [made |-> TRUE, text |-> text, marker |-> overflow_str,
                     max |-> max_len, result |-> result]
    /\ pc' = "idle"
    /\ text' = << >>
    /\ max_len' = 0
    /\ idx' = 0
    /\ in_escape' = FALSE
    /\ current_len' = 0
    /\ result' = << >>
    /\ UNCHANGED << overflow_str, visible_len, other, other_len, pipe_name,
                    mode_info, base_mode_is_locked, max_length, configuration,
                    subscribed, event, should_render, message, last_cols,
                    helpers >>

InitPlugin ==
    /\ configuration \in Configurations
    /\ StateDefault
    /\ overflow_str = << >>
    /\ pc = "new"
    /\ text = << >>
    /\ max_len = 0
    /\ visible_len = 0
    /\ idx = 0
    /\ in_escape = FALSE
    /\ current_len = 0
    /\ result = << >>
    /\ other = << >>
    /\ other_len = 0

\* display calls truncate_ansi_string only with visible_len > max_length
\* (main.rs:104), so its return of main.rs:121-123 is not among the steps
NextPlugin ==
    \/ Load
    \/ \E e \in Events : Update(e)
    \/ \E cols \in Cols : Render(cols)
    \/ Measure
    \/ ReturnOverflow
    \/ BeginScan
    \/ PushEscapeStart
    \/ PushEscapeBody
    \/ PushVisible
    \/ FinishScan
    \/ DisplayEmit

SpecPlugin == InitPlugin /\ [][NextPlugin]_vars

-----------------------------------------------------------------------------
(* Measuring a text and a restyled variant of it: the caller composes the  *)
(* same labels under another palette, so only the payload of the escape    *)
(* sequences differs.                                                      *)

\* position i of t lies in an escape-sequence span: an ESC at or before i with
\* no 'm' strictly between them (an unterminated span runs to the end)
InSpan(t, i) ==
    \E j \in 1..i : t[j] = ESC /\ \A k \in (j + 1)..(i - 1) : t[k] # LowerM

\* payload: inside a span, neither the ESC nor the terminating 'm'
IsPayload(t, i) == InSpan(t, i) /\ t[i] # ESC /\ t[i] # LowerM

RECURSIVE SkeletonFrom(_, _)
SkeletonFrom(t, i) ==
    IF i > Len(t) THEN << >>
    ELSE IF IsPayload(t, i) THEN SkeletonFrom(t, i + 1)
         ELSE << t[i] >> \o SkeletonFrom(t, i + 1)

\* t with the payload of its escape sequences removed
Skeleton(t) == SkeletonFrom(t, 1)

\* the same visible characters at the same places between the same escape
\* sequences, the payloads free to differ
EscapeOnlyVariants(s, t) == Skeleton(s) = Skeleton(t)

\* ESC, 'm', 'a', '['
PairAlphabet == Alphabet \cup {91}

\* display measures one rendered message (main.rs:103)
MeasureText ==
    /\ pc = "pair"
    /\ visible_len' = calculate_visible_length(text)
    /\ pc' = "pair_other"
    /\ UNCHANGED << overflow_str, text, max_len, idx, in_escape, current_len,
                    result, other, other_len, plugin,
                    helpers >>

\* and, on a later frame, its restyled variant (main.rs:103)
MeasureOther ==
    /\ pc = "pair_other"
    /\ other_len' = calculate_visible_length(other)
    /\ pc' = "pair_done"
    /\ UNCHANGED << overflow_str, text, max_len, visible_len, idx, in_escape,
                    current_len, result, other, plugin,
                    helpers >>

InitPair ==
    /\ text \in BoundedSeq(PairAlphabet, MaxPairLen)
    /\ other \in BoundedSeq(PairAlphabet, MaxPairLen)
    /\ EscapeOnlyVariants(text, other)
    /\ overflow_str = Dots
    /\ max_len = 0
    /\ pc = "pair"
    /\ visible_len = 0
    /\ other_len = 0
    /\ idx = 0
    /\ in_escape = FALSE
    /\ current_len = 0
    /\ result = << >>
    /\ StateDefault
    /\ configuration = EmptyConfiguration

NextPair ==
    \/ MeasureText
    \/ MeasureOther

SpecPair == InitPair /\ [][NextPair]_vars

-----------------------------------------------------------------------------
(* Properties *)

Done == pc = "done"

\* truncate_ansi_string went through its scan (main.rs:129-154)
Scanned == Done /\ ~FitsBudget /\ ~MarkerAlone

EndsWith(s, suffix) ==
    /\ Len(s) >= Len(suffix)
    /\ SubSeq(s, Len(s) - Len(suffix) + 1, Len(s)) = suffix

\* s without its last n characters
DropLast(s, n) == SubSeq(s, 1, Len(s) - n)

\* every ESC of s is followed, later in s, by an 'm'
NoPartialEscape(s) ==
    \A i \in 1..Len(s) :
        s[i] = ESC => \E j \in (i + 1)..Len(s) : s[j] = LowerM

\* the number of characters of s outside every escape-sequence span
VisibleCount(s) == Cardinality({ i \in 1..Len(s) : ~InSpan(s, i) })

\* the ESC at position j of t is never followed by an 'm'
Unterminated(t, j) ==
    /\ t[j] = ESC
    /\ \A k \in (j + 1)..Len(t) : t[k] # LowerM

IsScenario2 ==
    text = StyledHelloWorld /\ overflow_str = Dots /\ max_len = 5

\* C1 as stated: truncate(ESC[1m Hello World ESC[0m, "...", 5) returns
\* ESC[1m Hello ESC[0m ...
C1_Original ==
    (Done /\ IsScenario2) => result = Bold \o Hello \o Reset \o Dots

\* C1, amended: truncate(ESC[1m Hello World ESC[0m, "...", 5) returns
\* ESC[1m He ... : the marker's 3 characters are reserved in the budget, so
\* the visible prefix kept is "He"; the leading escape sequence is kept, the
\* trailing one (after the cut) is not, and the marker is appended.
C1_Scenario2 ==
    (Done /\ IsScenario2) => result = Bold \o << 72, 101 >> \o Dots

C1_Witness == Done /\ IsScenario2 /\ Len(result) = 9

\* C2 as stated: for every text, marker and budget the visible length of the
\* returned string does not exceed the budget.
C2_Original == Done => calculate_visible_length(result) <= max_len

\* C2, amended: the visible length of the returned string does not exceed the
\* budget, except when truncation is needed and the budget is at most the
\* marker's byte length: then the marker alone is returned, whatever its length.
C2_VisibleWithinBudget ==
    Done =>
        \/ calculate_visible_length(result) <= max_len
        \/ (~FitsBudget /\ MarkerAlone /\ result = overflow_str)

C2_Witness ==
    /\ Scanned
    /\ calculate_visible_length(result) = max_len
    /\ \E i \in 1..Len(result) : result[i] = ESC

\* C3: for every text s, marker and budget max_len >= visible_length(s),
\* truncate returns s unchanged; in particular the empty text with budget 0
\* returns the empty text, not the marker.
C3_NoOpBudget ==
    (Done /\ max_len >= calculate_visible_length(text)) => result = text

C3_Witness ==
    Done /\ text = << >> /\ max_len = 0 /\ overflow_str = Dots /\ result = << >>

\* C4: when visible_length(s) > max_len and max_len <= the marker's length,
\* truncate returns exactly the marker.
C4_MarkerDominance ==
    (Done /\ calculate_visible_length(text) > max_len
          /\ max_len <= Len(overflow_str))
        => result = overflow_str

C4_Witness ==
    Done /\ text = HelloWorld /\ overflow_str = Dots /\ max_len = 2
         /\ result = Dots

\* C5: whenever visible_length(s) > max_len, the returned string ends with the
\* marker, whether or not the budget is larger than the marker's length.
C5_SuffixLaw ==
    (Done /\ calculate_visible_length(text) > max_len)
        => EndsWith(result, overflow_str)

C5_Witness ==
    /\ Scanned
    /\ overflow_str # << >>
    /\ Len(result) > Len(overflow_str)
    /\ EndsWith(result, overflow_str)

\* C6 as stated: for every text and budget, every ESC of the returned string
\* is followed later in it by an 'm'.
C6_Original == Done => NoPartialEscape(result)

\* C6, amended: for every text and marker in which every ESC is followed later
\* by an 'm', and every budget, every ESC of the returned string is followed
\* later in it by an 'm'.
C6_EscapeAtomicity ==
    (Done /\ NoPartialEscape(text) /\ NoPartialEscape(overflow_str))
        => NoPartialEscape(result)

C6_Witness ==
    /\ Scanned
    /\ NoPartialEscape(text)
    /\ NoPartialEscape(overflow_str)
    /\ current_len > 0
    /\ result[Len(result) - Len(overflow_str)] = LowerM
    /\ in_escape = FALSE
    /\ \E i \in 2..Len(result) : result[i] = ESC

\* C7 as stated: when truncation occurred (visible_length(s) > n), the visible
\* length of the result without the marker is at most n minus the marker's
\* length.
C7_Original ==
    (Done /\ calculate_visible_length(text) > max_len) =>
        calculate_visible_length(DropLast(result, Len(overflow_str)))
            <= max_len - Len(overflow_str)

\* C7, amended: when truncation occurred with a budget n not smaller than the
\* marker's length, the visible length of the result without the marker is at
\* most n minus the marker's length.
C7_PrefixWithinTarget ==
    (Done /\ calculate_visible_length(text) > max_len
          /\ max_len >= Len(overflow_str)) =>
        calculate_visible_length(DropLast(result, Len(overflow_str)))
            <= max_len - Len(overflow_str)

C7_Witness ==
    /\ Scanned
    /\ overflow_str = Dots
    /\ calculate_visible_length(DropLast(result, Len(overflow_str)))
          = max_len - Len(overflow_str)

\* C8: visible_length returns the number of characters outside every
\* escape-sequence span (ESC through the first following 'm'); for a text
\* with no ESC that is its character count, and for ESC[1m Hello ESC[0m it is 5.
C8_VisibleLength ==
    pc \in {"check", "scan", "done"} =>
        /\ visible_len = VisibleCount(text)
        /\ (\A i \in 1..Len(text) : text[i] # ESC) => visible_len = Len(text)
        /\ text = StyledHello => visible_len = 5

C8_Witness == pc = "check" /\ text = StyledHello /\ visible_len = 5

\* C9: for a text with an ESC never followed by an 'm', visible_length equals
\* the visible length of the part of the text before that ESC.
C9_UnterminatedEscape ==
    pc \in {"check", "scan", "done"} =>
        \A j \in 1..Len(text) :
            Unterminated(text, j) =>
                visible_len = calculate_visible_length(SubSeq(text, 1, j - 1))

C9_Witness ==
    /\ pc = "check"
    /\ \E j \in 2..(Len(text) - 1) : Unterminated(text, j)
    /\ visible_len > 0

-----------------------------------------------------------------------------
(* Properties, continued *)

RECURSIVE EscapeCharsFrom(_, _)
EscapeCharsFrom(t, i) ==
    IF i > Len(t) THEN << >>
    ELSE IF InSpan(t, i) THEN << t[i] >> \o EscapeCharsFrom(t, i + 1)
         ELSE EscapeCharsFrom(t, i + 1)

\* the characters of t that lie in escape-sequence spans, in order
EscapeChars(t) == EscapeCharsFrom(t, 1)

\* the position of the n-th visible character of t
NthVisible(t, n) ==
    CHOOSE p \in 1..Len(t) :
        /\ ~InSpan(t, p)
        /\ Cardinality({ i \in 1..p : ~InSpan(t, i) }) = n

\* the first visible character the scan does not copy
CutPos == NthVisible(text, max_len - overflow_len + 1)

\* what truncate returned, without the marker it appended
Body ==
    IF FitsBudget THEN result ELSE DropLast(result, Len(overflow_str))

\* C11 as stated: for every text and budget, a marker whose visible length is
\* at least the budget makes the result the marker alone.
C11_Original ==
    (Done /\ calculate_visible_length(overflow_str) >= max_len)
        => result = overflow_str

\* C11, amended: for every text whose visible length exceeds the budget, a
\* marker whose visible length is at least the budget makes the result the
\* marker alone; a text that fits the budget is returned unchanged instead.
C11_MarkerAloneWhenTruncating ==
    (Done /\ calculate_visible_length(overflow_str) >= max_len) =>
        IF calculate_visible_length(text) > max_len
        THEN result = overflow_str
        ELSE result = text

C11_Witness ==
    /\ Done
    /\ calculate_visible_length(overflow_str) >= max_len
    /\ calculate_visible_length(text) > max_len
    /\ max_len > 0
    /\ result = overflow_str
    /\ \E i \in 1..Len(text) : text[i] = ESC

\* C12: the marker is measured by its character count k: with budget n > k and
\* visible_length(text) > n the result keeps n - k visible characters followed
\* by the marker, and the marker alone is returned only when n <= k.
C12_RawCharacterCount ==
    (Done /\ calculate_visible_length(text) > max_len) =>
        IF max_len > Len(overflow_str)
        THEN /\ EndsWith(result, overflow_str)
             /\ calculate_visible_length(DropLast(result, Len(overflow_str)))
                   = max_len - Len(overflow_str)
        ELSE result = overflow_str

\* C13 as stated: every escape sequence of the text is copied to the output,
\* in order, however many visible characters have been consumed.
C13_Original == Done => EscapeChars(Body) = EscapeChars(text)

\* C13, amended: when the scan runs, the output holds, in full and in order,
\* exactly the escape sequences that start before the first visible character
\* that is not copied; the escape sequences after that character are dropped.
\* A text that fits the budget keeps all its escape sequences.
C13_EscapesBeforeCut ==
    /\ Scanned =>
          /\ ~InSpan(text, CutPos)
          /\ EscapeChars(Body) = EscapeChars(SubSeq(text, 1, CutPos - 1))
    /\ (Done /\ FitsBudget) => EscapeChars(Body) = EscapeChars(text)

C13_Witness ==
    /\ Scanned
    /\ \E i \in 1..(CutPos - 1) : text[i] = ESC
    /\ \E i \in (CutPos + 1)..Len(text) : text[i] = ESC
    /\ EscapeChars(Body) # EscapeChars(text)

\* C14 as stated: the scan stops consuming input once the count of copied
\* visible characters equals target_len, so it has consumed the text up to the
\* last copied visible character and no further.
C14_Original ==
    Scanned => idx = NthVisible(text, max_len - overflow_len)

\* C14, amended: the scan stops at the first visible character met after the
\* count of copied visible characters has reached target_len: the escape
\* sequences between the last copied visible character and that character are
\* still consumed and copied, and nothing from that character on is.
C14_StopsAtNextVisible ==
    Scanned =>
        /\ current_len = max_len - overflow_len
        /\ idx = CutPos - 1
        /\ Len(result) = idx + Len(overflow_str)

C14_Witness ==
    /\ Scanned
    /\ idx > NthVisible(text, max_len - overflow_len)
    /\ \E i \in (CutPos + 1)..Len(text) : text[i] = ESC

\* C18: every call of truncate terminates, and its scan takes the characters
\* of the text one at a time, never one twice and never past the end.
C18_Terminates ==
    /\ <>(pc = "done")
    /\ [][idx' = idx \/ (idx' = idx + 1 /\ idx < Len(text))]_vars

C18_Witness == Scanned /\ idx > 1 /\ idx + 1 < Len(text)

\* C19: truncate returns for every text, marker and budget: no position of
\* the call is stuck, and max_len - overflow_len is evaluated only when
\* max_len > overflow_len, so it is never negative.
C19_Total ==
    /\ pc \in {"call", "check", "scan"} => ENABLED Next
    /\ pc = "scan" => max_len - overflow_len > 0

C19_Witness ==
    /\ pc = "scan"
    /\ max_len - overflow_len = 1
    /\ overflow_str = << 8230 >>

-----------------------------------------------------------------------------
(* Properties of the plugin *)

\* render has run and display has returned
Rendered == pc = "idle" /\ message # << >>

\* s holds needle as a contiguous part
Contains(s, needle) ==
    \E i \in 1..(Len(s) - Len(needle) + 1) :
        SubSeq(s, i, i + Len(needle) - 1) = needle

\* display reaches truncate_ansi_string only over budget (main.rs:104), which
\* is why NextPlugin leaves out the return of main.rs:121-123
TruncateCalledOverBudget ==
    pc = "check" => ~FitsBudget

\* what the values of MaxLengthValues mean as numbers
ExpectedMaxLength(o) ==
    IF o = Some(<< 51 >>) THEN 3
    ELSE IF o = Some(<< 48, 53 >>) THEN 5
    ELSE IF o = Some(<< 43, 52 >>) THEN 4
    ELSE 0

\* C15: with max_length = 0 display never truncates: what it prints and pipes
\* is the message unchanged, whatever its visible length.
C15_ZeroMeansNoTruncation ==
    (Rendered /\ max_length = 0) =>
        /\ printed = message
        /\ piped = PipePrefix \o pipe_name \o PipeSeparator \o message

C15_Witness ==
    /\ Rendered
    /\ max_length = 0
    /\ calculate_visible_length(message) > Len(overflow_str)
    /\ printed = message

\* C16: after load, overflow_str is the configured value or "..." when the
\* key is absent, max_length is the configured value as a number or 0 when the
\* key is absent or does not parse, and pipe_name is the configured value or
\* "zjstatus_hints" when absent.
C16_LoadDefaults ==
    pc # "new" =>
        /\ overflow_str = IF configuration.overflow_str.some
                          THEN configuration.overflow_str.value
                          ELSE << 46, 46, 46 >>
        /\ max_length = ExpectedMaxLength(configuration.max_length)
        /\ pipe_name = IF configuration.pipe_name.some
                       THEN configuration.pipe_name.value
                       ELSE DefaultPipeName

C16_Witness ==
    /\ pc = "idle"
    /\ configuration.max_length = Some(<< 52, 120 >>)
    /\ max_length = 0
    /\ ~configuration.overflow_str.some
    /\ overflow_str = Dots
    /\ configuration.pipe_name.some

\* C17: a call of truncate (with its call of visible_length) changes no field
\* of State, and a call with the text, marker and budget of the previous call
\* returns what that call returned, whatever happened in between.
C17_Pure ==
    [][ (pc \in {"call", "check", "scan"}) =>
          ( UNCHANGED << pipe_name, mode_info, base_mode_is_locked,
                         max_length, overflow_str >>
            /\ ( ( pc' = "done"
                   /\ last_call.made
                   /\ last_call.text = text
                   /\ last_call.marker = overflow_str
                   /\ last_call.max = max_len )
                 => result' = last_call.result ) ) ]_vars

C17_Witness ==
    /\ pc = "done"
    /\ last_call.made
    /\ last_call.text = text
    /\ last_call.max = max_len
    /\ result = last_call.result
    /\ event.kind = "InputReceived"
    /\ Len(result) > Len(overflow_str)

\* C20: after a CopyToClipboard event, a SystemClipboardFailure event, or a
\* TabUpdate whose active tab is fullscreen or shows floating panes, the next
\* render shows the matching transient message ("Text copied ...", "Error
\* using the system clipboard.", "FULLSCREEN", "FLOATING PANES").
C20_TransientMessages ==
    Rendered =>
        /\ event.kind = "CopyToClipboard" =>
              Contains(printed, << 84, 101, 120, 116, 32 >>)
        /\ event.kind = "SystemClipboardFailure" =>
              Contains(printed, << 69, 114, 114, 111, 114 >>)
        /\ ( /\ event.kind = "TabUpdate"
             /\ event.is_fullscreen_active
             /\ mode_info.mode = "Normal" ) =>
              Contains(printed,
                       << 70, 85, 76, 76, 83, 67, 82, 69, 69, 78 >>)
        /\ ( /\ event.kind = "TabUpdate"
             /\ event.are_floating_panes_visible
             /\ mode_info.mode = "Normal" ) =>
              Contains(printed,
                       << 70, 76, 79, 65, 84, 73, 78, 71, 32, 80, 65, 78,
                          69, 83 >>)

-----------------------------------------------------------------------------
(* Properties of the two scans *)

\* the part of the text the truncation scan has consumed
Consumed == SubSeq(text, 1, idx)

\* where the measurement scan stands after a text
MeasureState(s) == MeasureFrom([len |-> 0, in_escape |-> FALSE], s)

\* C21: the measurement scan and the truncation scan run the same two-state
\* machine: after every prefix the truncation scan has consumed, it is in the
\* state the measurement scan is in after that prefix, and the number of
\* visible characters it has copied is visible_length of that prefix.
C21_SameMachine ==
    (pc = "scan" \/ Scanned) =>
        /\ in_escape = MeasureState(Consumed).in_escape
        /\ current_len = MeasureState(Consumed).len
        /\ current_len = calculate_visible_length(Consumed)

C21_Witness ==
    /\ pc = "scan"
    /\ in_escape
    /\ current_len > 0
    /\ text[idx] # ESC
    /\ text[idx] # LowerM
    /\ \E i \in (idx + 1)..Len(text) : text[i] = LowerM

\* C22: when truncation occurs with a budget larger than the marker's length
\* (its character count), the result is p followed by the marker, where p is a
\* prefix of the text that ends right before a visible character, the cutoff:
\* every escape sequence before the cutoff is in the output, in its place.
C22_PrefixThenMarker ==
    (Done /\ ~FitsBudget /\ max_len > Len(overflow_str)) =>
        \E j \in 0..(Len(text) - 1) :
            /\ result = SubSeq(text, 1, j) \o overflow_str
            /\ ~InSpan(text, j + 1)

\* C23: the truncation scan stops early only in state Normal: when it has
\* stopped, it is outside every escape sequence, and every escape sequence it
\* started to copy is in the output through its terminating 'm'.
C23_StopsInNormal ==
    /\ Scanned => (~in_escape /\ NoPartialEscape(Consumed) /\ Body = Consumed)
    /\ (pc = "scan" /\ in_escape) => ~ENABLED FinishScan

C23_Witness ==
    /\ Scanned
    /\ idx < Len(text)
    /\ text[idx] = LowerM
    /\ InSpan(text, idx)
    /\ current_len = target_len
    /\ \E i \in 1..idx : ~InSpan(text, i)

\* the marker has no ESC and only single-byte characters
PlainMarker ==
    \A i \in 1..Len(overflow_str) :
        overflow_str[i] # ESC /\ Utf8Len(overflow_str[i]) = 1

\* C30: when truncation occurs with a budget n greater than the length k of an
\* escape-free marker of single-byte characters, truncate keeps exactly n - k
\* visible characters of the text, and the visible length of the whole result,
\* marker included, is exactly n.
C30_ExactBudget ==
    (Done /\ ~FitsBudget /\ PlainMarker /\ max_len > Len(overflow_str)) =>
        /\ calculate_visible_length(Body) = max_len - Len(overflow_str)
        /\ calculate_visible_length(result) = max_len

C30_Witness ==
    /\ Done
    /\ ~FitsBudget
    /\ overflow_str = << 46 >>
    /\ max_len = 2
    /\ calculate_visible_length(result) = 2
    /\ \E i \in 1..Len(result) : result[i] = ESC

-----------------------------------------------------------------------------
(* get_common_modifiers (main.rs:25-37) *)

MaxKeys == 3

\* enum KeyModifier in its declared order, the order a BTreeSet iterates in
KeyModifierOrder == << "Ctrl", "Alt", "Shift", "Super" >>

\* the key_modifiers the keys of the model carry
KeyModifierSets == SUBSET {"Ctrl", "Alt", "Shift"}

\* KeyWithModifier
Keys == [ bare_key : {"a"}, key_modifiers : KeyModifierSets ]

\* BTreeSet::into_iter().collect()
IntoVec(set) == SelectSeq(KeyModifierOrder, LAMBDA m : m \in set)

\* main.rs:26-28
ReturnNoModifiers ==
    /\ pc = "modifiers"
    /\ keyvec = << >>
    /\ modifiers' = << >>
    /\ pc' = "modifiers_done"
    /\ UNCHANGED << overflow_str, text, max_len, visible_len, idx, in_escape,
                    current_len, result, other, other_len, plugin, tab_info,
                    text_copied_to_clipboard_destination, clipboard_failure,
                    line_part, keyvec, taken, common_modifiers >>

\* main.rs:29: the last key is popped, the loop runs over the keys before it
PopLastKey ==
    /\ pc = "modifiers"
    /\ keyvec # << >>
    /\ common_modifiers' = keyvec[Len(keyvec)].key_modifiers
    /\ taken' = 0
    /\ pc' = "modifiers_loop"
    /\ UNCHANGED << overflow_str, text, max_len, visible_len, idx, in_escape,
                    current_len, result, other, other_len, plugin, tab_info,
                    text_copied_to_clipboard_destination, clipboard_failure,
                    line_part, keyvec, modifiers >>

\* a plausible slip: the sets are joined, not intersected
IntersectKeyJoins ==
    /\ pc = "modifiers_loop"
    /\ taken < Len(keyvec) - 1
    /\ common_modifiers' = common_modifiers \cup keyvec[taken + 1].key_modifiers
    /\ taken' = taken + 1
    /\ UNCHANGED << overflow_str, text, max_len, pc, visible_len, idx,
                    in_escape, current_len, result, other, other_len, plugin,
                    tab_info, text_copied_to_clipboard_destination,
                    clipboard_failure, line_part, keyvec, modifiers >>

\* main.rs:30-35
IntersectKey ==
    /\ pc = "modifiers_loop"
    /\ taken < Len(keyvec) - 1
    /\ common_modifiers' = common_modifiers \cap keyvec[taken + 1].key_modifiers
    /\ taken' = taken + 1
    /\ UNCHANGED << overflow_str, text, max_len, pc, visible_len, idx,
                    in_escape, current_len, result, other, other_len, plugin,
                    tab_info, text_copied_to_clipboard_destination,
                    clipboard_failure, line_part, keyvec, modifiers >>

\* main.rs:36
CollectModifiers ==
    /\ pc = "modifiers_loop"
    /\ taken = Len(keyvec) - 1
    /\ modifiers' = IntoVec(common_modifiers)
    /\ pc' = "modifiers_done"
    /\ UNCHANGED << overflow_str, text, max_len, visible_len, idx, in_escape,
                    current_len, result, other, other_len, plugin, tab_info,
                    text_copied_to_clipboard_destination, clipboard_failure,
                    line_part, keyvec, taken, common_modifiers >>

InitModifiers ==
    /\ keyvec \in BoundedSeq(Keys, MaxKeys)
    /\ pc = "modifiers"
    /\ overflow_str = << >>
    /\ text = << >>
    /\ max_len = 0
    /\ visible_len = 0
    /\ idx = 0
    /\ in_escape = FALSE
    /\ current_len = 0
    /\ result = << >>
    /\ other = << >>
    /\ other_len = 0
    /\ configuration = EmptyConfiguration
    /\ pipe_name = << >>
    /\ mode_info = DefaultModeInfo
    /\ base_mode_is_locked = FALSE
    /\ max_length = 0
    /\ subscribed = {}
    /\ event = NoEvent
    /\ should_render = FALSE
    /\ message = << >>
    /\ printed = << >>
    /\ piped = << >>
    /\ last_call = NoCall
    /\ last_cols = 0
    /\ tab_info = None
    /\ text_copied_to_clipboard_destination = None
    /\ clipboard_failure = FALSE
    /\ line_part = None
    /\ taken = 0
    /\ common_modifiers = {}
    /\ modifiers = << >>

NextModifiers ==
    \/ ReturnNoModifiers
    \/ PopLastKey
    \/ IntersectKey
    \/ CollectModifiers

SpecModifiers == InitModifiers /\ [][NextModifiers]_vars

\* the elements of a sequence
Range(seq) == { seq[i] : i \in 1..Len(seq) }

\* C25: get_common_modifiers returns exactly the modifiers present on every
\* key of its input, each once, whatever the order of the keys, and the empty
\* list for an empty input.
C25_CommonModifiers ==
    pc = "modifiers_done" =>
        /\ keyvec = << >> => modifiers = << >>
        /\ keyvec # << >> =>
              Range(modifiers) =
                  { m \in Range(KeyModifierOrder) :
                      \A k \in Range(keyvec) : m \in k.key_modifiers }
        /\ \A i, j \in 1..Len(modifiers) : modifiers[i] = modifiers[j] => i = j

C25_Witness ==
    /\ pc = "modifiers_done"
    /\ Len(keyvec) = 3
    /\ keyvec[1].key_modifiers = {"Ctrl", "Alt"}
    /\ keyvec[2].key_modifiers = {"Ctrl", "Alt", "Shift"}
    /\ keyvec[3].key_modifiers = {"Alt", "Shift"}
    /\ modifiers = << "Alt" >>

-----------------------------------------------------------------------------
(* one_line_ui (ui.rs:38-128) and the functions it calls.  A LinePart is   *)
(* its part, a text, and its len.                                          *)

LinePart(part, len) == [part |-> part, len |-> len]

\* LinePart { part: String::new(), len: 0 }
EmptyLinePart == LinePart(<< >>, 0)

\* Style::new().fg(..).bold().paint(t).to_string()
Styled(t) == Paint([styled |-> TRUE, text |-> t])

\* "Text piped to external command"
TextPipedToCommand ==
    << 84, 101, 120, 116, 32, 112, 105, 112, 101, 100, 32, 116, 111, 32,
       101, 120, 116, 101, 114, 110, 97, 108, 32, 99, 111, 109, 109, 97,
       110, 100 >>

\* "Text copied to system primary selection"
TextCopiedToPrimary ==
    << 84, 101, 120, 116, 32, 99, 111, 112, 105, 101, 100, 32, 116, 111,
       32, 115, 121, 115, 116, 101, 109, 32, 112, 114, 105, 109, 97, 114,
       121, 32, 115, 101, 108, 101, 99, 116, 105, 111, 110 >>

\* "Text copied to system clipboard"
TextCopiedToClipboard ==
    << 84, 101, 120, 116, 32, 99, 111, 112, 105, 101, 100, 32, 116, 111,
       32, 115, 121, 115, 116, 101, 109, 32, 99, 108, 105, 112, 98, 111,
       97, 114, 100 >>

\* " Error using the system clipboard."
ClipboardErrorText ==
    << 32, 69, 114, 114, 111, 114, 32, 117, 115, 105, 110, 103, 32, 116,
       104, 101, 32, 115, 121, 115, 116, 101, 109, 32, 99, 108, 105, 112,
       98, 111, 97, 114, 100, 46 >>

\* "FULLSCREEN"
FullscreenText ==
    << 70, 85, 76, 76, 83, 67, 82, 69, 69, 78 >>

\* " hidden panes"
HiddenPanesText ==
    << 32, 104, 105, 100, 100, 101, 110, 32, 112, 97, 110, 101, 115 >>

\* "FLOATING PANES VISIBLE"
FloatingPanesVisibleText ==
    << 70, 76, 79, 65, 84, 73, 78, 71, 32, 80, 65, 78, 69, 83, 32, 86, 73,
       83, 73, 66, 76, 69 >>

\* "Press "
PressText ==
    << 80, 114, 101, 115, 115, 32 >>

\* "to hide."
ToHideText ==
    << 116, 111, 32, 104, 105, 100, 101, 46 >>

\* " (FULLSCREEN) "
FullscreenTag ==
    << 32, 40, 70, 85, 76, 76, 83, 67, 82, 69, 69, 78, 41, 32 >>

\* " (FLOATING PANES) "
FloatingPanesTag ==
    << 32, 40, 70, 76, 79, 65, 84, 73, 78, 71, 32, 80, 65, 78, 69, 83, 41,
       32 >>

\* text_copied_hint (ui.rs:13-26), built for a target other than macos; the
\* part is the hint as a text component
text_copied_hint(copy_destination) ==
    LET hint == IF copy_destination = "Command" THEN TextPipedToCommand
                ELSE IF copy_destination = "Primary" THEN TextCopiedToPrimary
                ELSE TextCopiedToClipboard
    IN  LinePart(hint, StrLen(hint))

\* system_clipboard_error (ui.rs:28-35)
system_clipboard_error ==
    LinePart(Styled(ClipboardErrorText), StrLen(ClipboardErrorText))

\* fullscreen_panes_to_hide (ui.rs:325-352)
fullscreen_panes_to_hide(panes_to_hide) ==
    LET panes == Decimal(panes_to_hide)
    IN  LinePart(Styled(<< 32, 40 >>) \o Styled(FullscreenText)
                   \o Styled(<< 41, 58, 32 >>) \o Styled(<< 43, 32 >>)
                   \o Styled(panes) \o Styled(HiddenPanesText),
                 Len(FullscreenText) + 2 + Len(panes) + Len(HiddenPanesText)
                   + 5)

\* the key shown for an action: the first key bound to it, or '?'
FirstKeyOr(help, key) == IF help.keys = "bound" THEN << key >> ELSE << 63 >>

\* floating_panes_are_visible (ui.rs:354-409)
floating_panes_are_visible(help) ==
    LET pane_mode == FirstKeyOr(help, 112)
        p == FirstKeyOr(help, 119)
    IN  LinePart(Styled(<< 32, 40 >>) \o Styled(FloatingPanesVisibleText)
                   \o Styled(<< 41, 58, 32 >>) \o Styled(PressText)
                   \o Styled(pane_mode) \o Styled(<< 44, 32 >>)
                   \o Styled(<< 60 >>) \o Styled(p) \o Styled(<< 62, 32 >>)
                   \o Styled(ToHideText),
                 Len(FloatingPanesVisibleText) + Len(PressText)
                   + Len(pane_mode) + 2 + 1 + Len(p) + 2 + Len(ToHideText)
                   + 5)

\* locked_fullscreen_panes_to_hide (ui.rs:411-416)
locked_fullscreen_panes_to_hide == EmptyLinePart

\* locked_floating_panes_are_visible (ui.rs:418-423)
locked_floating_panes_are_visible == EmptyLinePart

\* show_mode_keybindings (ui.rs:130-323)
show_mode_keybindings(help, budget) ==
    LET parts == HintParts(help)
    IN  IF parts = << >> THEN EmptyLinePart
        ELSE IF unstyled_len(parts) <= budget
             THEN LinePart(ANSIStrings(parts), unstyled_len(parts))
             ELSE EmptyLinePart

\* show_enhanced_mode_keybindings (ui.rs:426-936)
show_enhanced_mode_keybindings(help, budget) ==
    LET parts == HintParts(help)
    IN  IF parts = << >> THEN EmptyLinePart
        ELSE IF 1 + unstyled_len(parts) <= budget
             THEN LinePart(<< 32 >> \o ANSIStrings(parts),
                           1 + unstyled_len(parts))
             ELSE EmptyLinePart

\* str::trim_start
RECURSIVE TrimStart(_)
TrimStart(t) ==
    IF t # << >> /\ Head(t) = 32 THEN TrimStart(Tail(t)) ELSE t

\* ui.rs:73-88 and 100-115: the indicator of a mode other than Normal and
\* Locked, before the keybindings that fit next to it (len grows by the
\* number the code adds: 14, and 19 for the 18 characters of the
\* floating-panes tag) or alone
TaggedKeybindings(help, tag, added, budget) ==
    LET keybindings == show_mode_keybindings(help, budget)
    IN  IF keybindings.len > 0
        THEN LinePart(tag \o TrimStart(keybindings.part),
                      keybindings.len + added)
        ELSE LinePart(Styled(tag), StrLen(tag))

\* ui.rs:60-91: Some(line part) when the branch returns
FullscreenLinePart(help, active_tab, budget) ==
    IF ~active_tab.is_fullscreen_active THEN None
    ELSE IF help.mode = "Normal"
         THEN Some(fullscreen_panes_to_hide(active_tab.panes_to_hide))
    ELSE IF help.mode = "Locked" THEN Some(locked_fullscreen_panes_to_hide)
    ELSE IF budget > 20
         THEN Some(TaggedKeybindings(help, FullscreenTag, 14, budget - 15))
    ELSE None

\* ui.rs:93-118
FloatingLinePart(help, active_tab, budget) ==
    IF ~active_tab.are_floating_panes_visible THEN None
    ELSE IF help.mode = "Normal" THEN Some(floating_panes_are_visible(help))
    ELSE IF help.mode = "Locked" THEN Some(locked_floating_panes_are_visible)
    ELSE IF budget > 25
         THEN Some(TaggedKeybindings(help, FloatingPanesTag, 19, budget - 20))
    ELSE None

\* ui.rs:120-127
KeybindingsLinePart(help, budget, base_locked) ==
    IF help.mode = "Locked" /\ base_locked THEN EmptyLinePart
    ELSE show_enhanced_mode_keybindings(help, budget)

\* ui.rs:58-118
TabStateLinePart(help, tab, budget) ==
    IF ~tab.some THEN None
    ELSE LET fullscreen == FullscreenLinePart(help, tab.value, budget)
         IN  IF fullscreen.some THEN fullscreen
             ELSE FloatingLinePart(help, tab.value, budget)

\* a plausible slip: the clipboard error is tested before the confirmation
one_line_ui_error_first(help, tab, budget, base_locked, destination, failure) ==
    IF failure THEN system_clipboard_error
    ELSE IF destination.some THEN text_copied_hint(destination.value)
    ELSE LET tab_state == TabStateLinePart(help, tab, budget)
         IN  IF tab_state.some THEN tab_state.value
             ELSE KeybindingsLinePart(help, budget, base_locked)

\* one_line_ui (ui.rs:38-128)
one_line_ui(help, tab, budget, base_locked, destination, failure) ==
    IF destination.some THEN text_copied_hint(destination.value)
    ELSE IF failure THEN system_clipboard_error
    ELSE LET tab_state == TabStateLinePart(help, tab, budget)
         IN  IF tab_state.some THEN tab_state.value
             ELSE KeybindingsLinePart(help, budget, base_locked)

\* a call of one_line_ui with the State's mode_info and base_mode_is_locked
CallOneLineUi ==
    /\ pc = "ui"
    /\ line_part' = one_line_ui(mode_info, tab_info, max_len,
                                base_mode_is_locked,
                                text_copied_to_clipboard_destination,
                                clipboard_failure)
    /\ pc' = "ui_done"
    /\ UNCHANGED << overflow_str, text, max_len, visible_len, idx, in_escape,
                    current_len, result, other, other_len, plugin, tab_info,
                    text_copied_to_clipboard_destination, clipboard_failure,
                    keyvec, taken, common_modifiers, modifiers >>

\* TabInfo, as far as one_line_ui reads it
TabInfos ==
    [ is_fullscreen_active : BOOLEAN, are_floating_panes_visible : BOOLEAN,
      panes_to_hide : {2} ]

\* the widths on both sides of the tests max_len > 20 and max_len > 25, and
\* one at which the keybindings fit next to the floating-panes indicator
UiMaxLens == {20, 21, 25, 26, 30}

InitUi ==
    /\ mode_info \in [ mode : {"Normal", "Locked", "Pane"},
                       base_mode : {"None"},
                       keys : {"bound", "unbound"},
                       background : {DefaultModeInfo.background} ]
    /\ tab_info \in {None} \cup { Some(t) : t \in TabInfos }
    /\ max_len \in UiMaxLens
    /\ base_mode_is_locked \in BOOLEAN
    /\ text_copied_to_clipboard_destination
          \in {None, Some("Command"), Some("Primary"), Some("System")}
    /\ clipboard_failure \in BOOLEAN
    /\ pc = "ui"
    /\ line_part = None
    /\ overflow_str = << >>
    /\ text = << >>
    /\ visible_len = 0
    /\ idx = 0
    /\ in_escape = FALSE
    /\ current_len = 0
    /\ result = << >>
    /\ other = << >>
    /\ other_len = 0
    /\ configuration = EmptyConfiguration
    /\ pipe_name = << >>
    /\ max_length = 0
    /\ subscribed = {}
    /\ event = NoEvent
    /\ should_render = FALSE
    /\ message = << >>
    /\ printed = << >>
    /\ piped = << >>
    /\ last_call = NoCall
    /\ last_cols = 0
    /\ keyvec = << >>
    /\ taken = 0
    /\ common_modifiers = {}
    /\ modifiers = << >>

NextUi == CallOneLineUi

SpecUi == InitUi /\ [][NextUi]_vars

\* no clipboard message is pending
NoClipboardMessage ==
    ~text_copied_to_clipboard_destination.some /\ ~clipboard_failure

\* the active tab is fullscreen and the mode and width let it show
FullscreenCase ==
    /\ tab_info.some
    /\ tab_info.value.is_fullscreen_active
    /\ (mode_info.mode \in {"Normal", "Locked"} \/ max_len > 20)

\* the active tab shows floating panes and the mode and width let it show
FloatingCase ==
    /\ ~FullscreenCase
    /\ tab_info.some
    /\ tab_info.value.are_floating_panes_visible
    /\ (mode_info.mode \in {"Normal", "Locked"} \/ max_len > 25)

\* "FLOATING PANES"
FloatingPanesText == SubSeq(FloatingPanesVisibleText, 1, 14)

\* the mode keybindings, empty when the mode is Locked and the base mode is
\* locked
ExpectedKeybindings ==
    IF mode_info.mode = "Locked" /\ base_mode_is_locked THEN EmptyLinePart
    ELSE show_enhanced_mode_keybindings(mode_info, max_len)

\* C24 as stated: one_line_ui selects by strict priority: a pending copy
\* destination yields the copy confirmation; otherwise a clipboard failure
\* yields the clipboard error; otherwise a fullscreen or floating-panes tab
\* yields the tab-state indicator (Normal and Locked modes always, other modes
\* only when max_len > 20 resp. > 25); otherwise the mode keybindings.
C24_Original ==
    pc = "ui_done" =>
        /\ text_copied_to_clipboard_destination.some =>
              line_part =
                  text_copied_hint(text_copied_to_clipboard_destination.value)
        /\ (~text_copied_to_clipboard_destination.some /\ clipboard_failure)
              => line_part = system_clipboard_error
        /\ (NoClipboardMessage /\ FullscreenCase) =>
              Contains(line_part.part, FullscreenText)
        /\ (NoClipboardMessage /\ FloatingCase) =>
              Contains(line_part.part, FloatingPanesText)
        /\ (NoClipboardMessage /\ ~FullscreenCase /\ ~FloatingCase) =>
              line_part = ExpectedKeybindings

\* C24, amended: one_line_ui selects by strict priority: a pending copy
\* destination yields the copy confirmation; otherwise a clipboard failure
\* yields the clipboard error; otherwise a fullscreen or floating-panes tab
\* yields the tab-state indicator in Normal mode always and in modes other
\* than Normal and Locked only when max_len > 20 resp. > 25, and yields the
\* empty segment in Locked mode (no indicator and no keybindings, whatever the
\* base mode); otherwise the mode keybindings, which are empty when the mode
\* is Locked and the base mode is locked.
C24_Priority ==
    pc = "ui_done" =>
        /\ text_copied_to_clipboard_destination.some =>
              line_part =
                  text_copied_hint(text_copied_to_clipboard_destination.value)
        /\ (~text_copied_to_clipboard_destination.some /\ clipboard_failure)
              => line_part = system_clipboard_error
        /\ (NoClipboardMessage /\ FullscreenCase) =>
              IF mode_info.mode = "Locked" THEN line_part = EmptyLinePart
              ELSE Contains(line_part.part, FullscreenText)
        /\ (NoClipboardMessage /\ FloatingCase) =>
              IF mode_info.mode = "Locked" THEN line_part = EmptyLinePart
              ELSE Contains(line_part.part, FloatingPanesText)
        /\ (NoClipboardMessage /\ ~FullscreenCase /\ ~FloatingCase) =>
              line_part = ExpectedKeybindings

C24_Witness ==
    /\ pc = "ui_done"
    /\ NoClipboardMessage
    /\ FullscreenCase
    /\ mode_info.mode = "Locked"
    /\ ~base_mode_is_locked
    /\ ExpectedKeybindings # EmptyLinePart
    /\ line_part = EmptyLinePart

-----------------------------------------------------------------------------
(* Properties of the handlers *)

\* a step of update: it leaves the plugin idle and clears what was displayed
UpdateStep == pc = "idle" /\ pc' = "idle" /\ message' = << >>

\* C26: update returns true if and only if the event is a ModeUpdate whose
\* mode_info differs from the stored one; for every other event and for a
\* ModeUpdate equal to the stored one it returns false, so the same
\* ModeUpdate delivered twice in a row asks for a redraw at most once.
C26_UpdateReturn ==
    [][ UpdateStep =>
          ( ( should_render' = ( event'.kind = "ModeUpdate"
                                 /\ event'.mode_info # mode_info ) )
            /\ ( ( event'.kind = "ModeUpdate" /\ event' = event )
                 => ~should_render' ) ) ]_vars

C26_Witness ==
    /\ pc = "idle"
    /\ event.kind = "ModeUpdate"
    /\ mode_info = event.mode_info
    /\ ~should_render
    /\ message = << >>

\* C27: in every reachable state base_mode_is_locked is true exactly when the
\* stored mode_info.base_mode is Locked; the stored mode_info is that of the
\* most recent ModeUpdate (the default before any); and max_length,
\* overflow_str and pipe_name do not change after load.
C27_StateInvariant ==
    /\ mode_info = DefaultModeInfo
    /\ [](base_mode_is_locked = (mode_info.base_mode = "Locked"))
    /\ [](event.kind = "ModeUpdate" => mode_info = event.mode_info)
    /\ [][ (event'.kind # "ModeUpdate" \/ event' = event)
              => mode_info' = mode_info ]_vars
    /\ [][ (pc # "new")
              => UNCHANGED << max_length, overflow_str, pipe_name >> ]_vars

C27_Witness ==
    /\ pc = "idle"
    /\ base_mode_is_locked
    /\ mode_info.base_mode = "Locked"
    /\ event.kind = "TabUpdate"
    /\ last_call.made

\* the hints of the stored mode, complete
FullHints == << 32 >> \o ANSIStrings(HintParts(mode_info))

\* the background fill of the stored mode
Fill == FillBg(mode_info.background)

C29_FillDropped ==
    ( /\ Rendered
      /\ max_length > Len(overflow_str)
      /\ calculate_visible_length(message) > max_length ) =>
        /\ \E j \in 0..(Len(message) - Len(Fill)) :
              printed = SubSeq(message, 1, j) \o overflow_str
        /\ ~Contains(printed, EraseLine)
        /\ ~Contains(printed, Fill)
        /\ piped = PipePrefix \o pipe_name \o PipeSeparator \o printed

C29_Witness ==
    /\ Rendered
    /\ max_length > Len(overflow_str)
    /\ calculate_visible_length(message) > max_length
    /\ Contains(printed, Bold)
    /\ ~Contains(printed, Reset)
    /\ Contains(message, Reset)

=============================================================================
